---------------------------- MODULE Spec2Model ----------------------------
(***************************************************************************)
(* A model of ConnectorContext                                             *)
(* (airbyte-ci/connectors/pipelines/pipelines/airbyte_ci/connectors/       *)
(* context.py): the teardown run by __aexit__, the memoised                *)
(* get_connector_secrets, the metadata driven step-skip policy applied by  *)
(* the constructor, and the lazy secret accessors.                         *)
(*                                                                         *)
(* Four specifications share the module:                                   *)
(*   Spec           the guarded scope of one context and its __aexit__     *)
(*   SpecSecrets    tasks calling get_connector_secrets on one context     *)
(*   SpecCtor       contexts constructed from RunStepOptions objects       *)
(*   SpecAccessors  the credential accessors of one context                *)
(***************************************************************************)
EXTENDS Integers, Sequences, FiniteSets, TLC

VARIABLES
    \* ---- the guarded scope and __aexit__ (Spec)
    pc,                     \* position of the flow that owns the context
    use_remote_secrets,     \* self.use_remote_secrets
    should_save_report,     \* self.should_save_report
    slack_webhook,          \* self.slack_webhook (PipelineContext)
    reporting_slack_channel, \* self.reporting_slack_channel (PipelineContext)
    overrides_slack_message, \* the concrete class overrides create_slack_message
    secrets_dir_field,      \* self._secrets_dir
    updated_secrets_dir_field, \* self._updated_secrets_dir
    report,                 \* self.report
    exception_value,        \* __aexit__'s exception_value argument
    stopped_at,             \* self.stopped_at
    state,                  \* self.state
    log,                    \* history: what teardown did, in order
    escaped,                \* the exception that left __aexit__, if any
    aexit_return,           \* the value __aexit__ returned, if it returned
    \* ---- get_connector_secrets (SpecSecrets)
    connector_secrets,      \* self._connector_secrets
    task_pc,                \* per task: idle | awaiting
    received,               \* per task: what its last call returned
    calls,                  \* per task: calls made so far
    fetches,                \* history: secrets.get_connector_secrets invocations
    \* ---- construction (SpecCtor)
    heap,                   \* RunStepOptions objects: id -> skip_steps
    pristine,               \* history: the input objects as first created
    last_ctor,              \* history: the last construction
    \* ---- accessors (SpecAccessors)
    s3_build_cache_access_key_id,
    s3_build_cache_secret_key,
    docker_hub_username,
    docker_hub_password,
    dagger_secrets,         \* names registered with dagger_client.set_secret
    last_access             \* history: the last accessor read and its value

tdVars == <<pc, use_remote_secrets, should_save_report, slack_webhook,
            reporting_slack_channel, overrides_slack_message, secrets_dir_field,
            updated_secrets_dir_field, report, exception_value, stopped_at,
            state, log, escaped, aexit_return>>
secVars == <<connector_secrets, task_pc, received, calls, fetches>>
ctorVars == <<heap, pristine, last_ctor>>
accVars == <<s3_build_cache_access_key_id, s3_build_cache_secret_key,
             docker_hub_username, docker_hub_password, dagger_secrets,
             last_access>>
vars == <<tdVars, secVars, ctorVars, accVars>>

\* Python's None, for string-valued and opaque fields.
None == "None"
\* Python's None, for record-valued fields.
NoneObj == [kind |-> "None"]

(***************************************************************************)
(* Part 1.  The guarded scope and __aexit__                                *)
(***************************************************************************)

\* Directories a pipeline step may assign.
Directories == {"dir_a", "dir_b"}
\* Reports the pipeline may attach: one whose steps all passed, one with a
\* failed step.
AttachableReports ==
    { [kind |-> "ConnectorReport", steps |-> <<"passed">>],
      [kind |-> "ConnectorReport", steps |-> <<"passed", "failed">>] }
\* Exceptions the enclosed scope may raise.
ScopeExceptions == {"RuntimeError"}

\* ConnectorReport(self, [])
EmptyConnectorReport == [kind |-> "ConnectorReport", steps |-> <<>>]

\* PipelineContext.determine_final_state(report, exception_value)
determine_final_state(rep, exc) ==
    IF exc # None \/ rep = NoneObj THEN "ERROR"
    ELSE IF \E i \in 1..Len(rep.steps) : rep.steps[i] = "failed" THEN "FAILURE"
    ELSE "SUCCESSFUL"

\* PipelineContext.should_send_slack_message
should_send_slack_message ==
    slack_webhook # None /\ reporting_slack_channel # None

should_save_updated_secrets_no_remote_check ==
    updated_secrets_dir_field # None
\* ConnectorContext.should_save_updated_secrets
should_save_updated_secrets ==
    use_remote_secrets /\ updated_secrets_dir_field # None

TeardownInit ==
    /\ pc = "scope"
    /\ use_remote_secrets \in BOOLEAN
    /\ should_save_report \in BOOLEAN
    /\ slack_webhook \in {None, "webhook"}
    /\ reporting_slack_channel \in {None, "channel"}
    /\ overrides_slack_message \in BOOLEAN
    /\ secrets_dir_field = None
    /\ updated_secrets_dir_field = None
    /\ report = NoneObj
    /\ exception_value = None
    /\ stopped_at = None
    /\ state = "INITIALIZED"
    /\ log = <<>>
    /\ escaped = None
    /\ aexit_return = None

TeardownIdle ==
    /\ pc = "unused"
    /\ use_remote_secrets = FALSE
    /\ should_save_report = FALSE
    /\ slack_webhook = None
    /\ reporting_slack_channel = None
    /\ overrides_slack_message = FALSE
    /\ secrets_dir_field = None
    /\ updated_secrets_dir_field = None
    /\ report = NoneObj
    /\ exception_value = None
    /\ stopped_at = None
    /\ state = "INITIALIZED"
    /\ log = <<>>
    /\ escaped = None
    /\ aexit_return = None

configVars == <<use_remote_secrets, should_save_report, slack_webhook,
                reporting_slack_channel, overrides_slack_message>>
otherVars == <<secVars, ctorVars, accVars>>

\* ---- while the scope runs

\* secrets_dir.setter
secrets_dir_setter(d) ==
    /\ pc = "scope"
    /\ secrets_dir_field' = d
    /\ UNCHANGED <<pc, configVars, updated_secrets_dir_field, report,
                   exception_value, stopped_at, state, log, escaped,
                   aexit_return, otherVars>>

\* updated_secrets_dir.setter
updated_secrets_dir_setter(d) ==
    /\ pc = "scope"
    /\ updated_secrets_dir_field' = d
    /\ UNCHANGED <<pc, configVars, secrets_dir_field, report,
                   exception_value, stopped_at, state, log, escaped,
                   aexit_return, otherVars>>

\* The pipeline attaches its report: context.report = ...
AttachReport(r) ==
    /\ pc = "scope"
    /\ report' = r
    /\ UNCHANGED <<pc, configVars, secrets_dir_field, updated_secrets_dir_field,
                   exception_value, stopped_at, state, log, escaped,
                   aexit_return, otherVars>>

\* The scope ends, normally or by an exception, and __aexit__ is entered.
ExitScope(exc) ==
    /\ pc = "scope"
    /\ pc' = "aexit"
    /\ exception_value' = exc
    /\ UNCHANGED <<configVars, secrets_dir_field, updated_secrets_dir_field,
                   report, stopped_at, state, log, escaped, aexit_return,
                   otherVars>>

\* ---- __aexit__

tdFrame == <<configVars, secrets_dir_field, updated_secrets_dir_field,
             exception_value, otherVars>>

\* self.stopped_at = ...; self.state = ...; log the handled exception
RecordStop ==
    /\ pc = "aexit"
    /\ stopped_at' = "utcnow"
    /\ state' = determine_final_state(report, exception_value)
    /\ log' = log \o <<"stopped_at", "state">>
              \o (IF exception_value # None THEN <<"log_exception">> ELSE <<>>)
    /\ pc' = "check_report"
    /\ UNCHANGED <<tdFrame, report, escaped, aexit_return>>

SubstituteReportForgotten ==
    /\ pc = "check_report"
    /\ pc' = "upload"
    /\ UNCHANGED <<tdFrame, report, stopped_at, state, log, escaped, aexit_return>>
\* if self.report is None: ... self.report = ConnectorReport(self, [])
SubstituteReport ==
    /\ pc = "check_report"
    /\ \/ /\ report = NoneObj
          /\ report' = EmptyConnectorReport
          /\ log' = log \o <<"log_no_report", "substitute">>
       \/ /\ report # NoneObj
          /\ UNCHANGED <<report, log>>
    /\ pc' = "upload"
    /\ UNCHANGED <<tdFrame, stopped_at, state, escaped, aexit_return>>

UploadSecretsNotAwaited ==
    /\ pc = "upload"
    /\ \/ /\ should_save_updated_secrets
          /\ log' = Append(log, "upload:call")
       \/ /\ ~should_save_updated_secrets
          /\ UNCHANGED log
    /\ pc' = "print"
    /\ UNCHANGED <<tdFrame, report, stopped_at, state, escaped, aexit_return>>
\* if self.should_save_updated_secrets: await secrets.upload(self)
UploadSecrets ==
    /\ pc = "upload"
    /\ \/ /\ should_save_updated_secrets
          /\ log' = Append(log, "upload:call")
          /\ pc' = "await_upload"
       \/ /\ ~should_save_updated_secrets
          /\ pc' = "print"
          /\ UNCHANGED log
    /\ UNCHANGED <<tdFrame, report, stopped_at, state, escaped, aexit_return>>

\* An awaited collaborator call ends: it returns, or it raises and, there
\* being no handler in __aexit__, the exception leaves __aexit__.
AwaitEnds(at, step, next, error) ==
    /\ pc = at
    /\ \/ /\ log' = Append(log, step \o ":done")
          /\ pc' = next
          /\ UNCHANGED escaped
       \/ /\ log' = Append(log, step \o ":raised")
          /\ pc' = "raised"
          /\ escaped' = error
    /\ UNCHANGED <<tdFrame, report, stopped_at, state, aexit_return>>

\* secrets.upload(self) ends
UploadEnds == AwaitEnds("await_upload", "upload", "print", "SecretsUploadError")

\* self.report.print()
PrintReport ==
    /\ pc = "print"
    /\ log' = Append(log, IF report = NoneObj THEN "print:None" ELSE "print")
    /\ pc' = "save"
    /\ UNCHANGED <<tdFrame, report, stopped_at, state, escaped, aexit_return>>

\* if self.should_save_report: await self.report.save()
SaveReport ==
    /\ pc = "save"
    /\ \/ /\ should_save_report
          /\ log' = Append(log, IF report = NoneObj THEN "save:None" ELSE "save:call")
          /\ pc' = "await_save"
       \/ /\ ~should_save_report
          /\ pc' = "status"
          /\ UNCHANGED log
    /\ UNCHANGED <<tdFrame, report, stopped_at, state, escaped, aexit_return>>

\* self.report.save() ends
SaveEnds == AwaitEnds("await_save", "save", "status", "ReportSaveError")

\* await asyncify(update_commit_status_check)(**self.github_commit_status)
UpdateCommitStatus ==
    /\ pc = "status"
    /\ log' = Append(log, "status:call")
    /\ pc' = "await_status"
    /\ UNCHANGED <<tdFrame, report, stopped_at, state, escaped, aexit_return>>

\* update_commit_status_check ends
StatusEnds == AwaitEnds("await_status", "status", "slack", "StatusCheckError")

\* ConnectorContext.create_slack_message: raises NotImplementedError unless
\* the concrete class overrides it.
create_slack_message_raises == ~overrides_slack_message

\* if self.should_send_slack_message:
\*     await asyncify(send_message_to_webhook)(self.create_slack_message(), ...)
SendSlackMessage ==
    /\ pc = "slack"
    /\ \/ /\ should_send_slack_message
          /\ create_slack_message_raises
          /\ log' = Append(log, "create_slack_message:raised")
          /\ pc' = "raised"
          /\ escaped' = "NotImplementedError"
       \/ /\ should_send_slack_message
          /\ ~create_slack_message_raises
          /\ log' = Append(log, "slack:call")
          /\ pc' = "await_slack"
          /\ UNCHANGED escaped
       \/ /\ ~should_send_slack_message
          /\ pc' = "return"
          /\ UNCHANGED <<log, escaped>>
    /\ UNCHANGED <<tdFrame, report, stopped_at, state, aexit_return>>

\* send_message_to_webhook ends
SlackEnds == AwaitEnds("await_slack", "slack", "return", "SlackWebhookError")

\* return True
ReturnTrue ==
    /\ pc = "return"
    /\ aexit_return' = "True"
    /\ pc' = "returned"
    /\ UNCHANGED <<tdFrame, report, stopped_at, state, log, escaped>>

Next ==
    \/ \E d \in Directories : secrets_dir_setter(d)
    \/ \E d \in Directories : updated_secrets_dir_setter(d)
    \/ \E r \in AttachableReports : AttachReport(r)
    \/ \E exc \in ScopeExceptions \cup {None} : ExitScope(exc)
    \/ RecordStop
    \/ SubstituteReport
    \/ UploadSecrets
    \/ UploadEnds
    \/ PrintReport
    \/ SaveReport
    \/ SaveEnds
    \/ UpdateCommitStatus
    \/ StatusEnds
    \/ SendSlackMessage
    \/ SlackEnds
    \/ ReturnTrue

(***************************************************************************)
(* Part 2.  get_connector_secrets                                          *)
(***************************************************************************)

\* Tasks that hold the context and may call get_connector_secrets.
Tasks == {"task_a", "task_b"}
\* Calls each task makes at most.
MaxCalls == 3

SecretsIdle ==
    /\ connector_secrets = NoneObj
    /\ task_pc = <<>>
    /\ received = <<>>
    /\ calls = <<>>
    /\ fetches = 0

\* self._connector_secrets: Optional[Dict[str, Secret]] = None
SecretsInit ==
    /\ connector_secrets = NoneObj
    /\ task_pc = [t \in Tasks |-> "idle"]
    /\ received = [t \in Tasks |-> NoneObj]
    /\ calls = [t \in Tasks |-> 0]
    /\ fetches = 0

secFrame == <<tdVars, ctorVars, accVars>>

\* get_connector_secrets up to its await: the memo is tested and, when it
\* is None, secrets.get_connector_secrets(self) is invoked and awaited.
get_connector_secrets_call(t) ==
    /\ task_pc[t] = "idle"
    /\ calls[t] < MaxCalls
    /\ calls' = [calls EXCEPT ![t] = @ + 1]
    /\ \/ /\ connector_secrets = NoneObj
          /\ fetches' = fetches + 1
          /\ task_pc' = [task_pc EXCEPT ![t] = "awaiting"]
          /\ UNCHANGED received
       \/ /\ connector_secrets # NoneObj
          /\ received' = [received EXCEPT ![t] = connector_secrets]
          /\ UNCHANGED <<fetches, task_pc>>
    /\ UNCHANGED <<connector_secrets, secFrame>>

\* The awaited fetch returns a mapping: it is stored and returned.
\* Every fetch builds its own mapping.
fetch_returns(t) ==
    /\ task_pc[t] = "awaiting"
    /\ connector_secrets' = [kind |-> "Dict", fetched_by |-> t, call |-> calls[t]]
    /\ received' = [received EXCEPT ![t] = connector_secrets']
    /\ task_pc' = [task_pc EXCEPT ![t] = "idle"]
    /\ UNCHANGED <<calls, fetches, secFrame>>

\* The awaited fetch raises: nothing is stored, the caller sees the error.
fetch_raises(t) ==
    /\ task_pc[t] = "awaiting"
    /\ received' = [received EXCEPT ![t] = [kind |-> "raised"]]
    /\ task_pc' = [task_pc EXCEPT ![t] = "idle"]
    /\ UNCHANGED <<connector_secrets, calls, fetches, secFrame>>

NextSecrets ==
    \/ \E t \in Tasks : get_connector_secrets_call(t)
    \/ \E t \in Tasks : fetch_returns(t)
    \/ \E t \in Tasks : fetch_raises(t)

(***************************************************************************)
(* Part 3.  Construction and the step-skip policy                          *)
(***************************************************************************)

\* Contexts constructed at most.
MaxContexts == 2
\* Entries of connectorTestSuitesOptions at most.
MaxOptions == 2

\* TEST_SUITE_NAME_TO_STEP_ID, in the dict's order.
TEST_SUITE_NAME_TO_STEP_ID ==
    << <<"unitTests", "UNIT">>,
       <<"integrationTests", "INTEGRATION">>,
       <<"acceptanceTests", "ACCEPTANCE">> >>

\* Suite names a metadata file may declare; liveTests is not a key of
\* TEST_SUITE_NAME_TO_STEP_ID.
SuiteNames == {"unitTests", "integrationTests", "acceptanceTests", "liveTests"}

SuiteOptionLists ==
    UNION { [1..n -> [suite : SuiteNames]] : n \in 0..MaxOptions }

\* The "data" section of metadata.yaml, with and without the
\* connectorTestSuitesOptions key.
Metadatas ==
    {[dockerRepository |-> "airbyte/source-foo", dockerImageTag |-> "1.2.3"]}
    \cup
    {[dockerRepository |-> "airbyte/source-foo", dockerImageTag |-> "1.2.3",
      connectorTestSuitesOptions |-> o] : o \in SuiteOptionLists}

\* dict.get(key, default)
DictGet(d, key, default) == IF key \in DOMAIN d THEN d[key] ELSE default

\* x in list
InList(x, l) == \E i \in 1..Len(l) : l[i] = x

RECURSIVE StepsNotIn(_, _)
\* [step_id for name, step_id in items if name not in enabled]
StepsNotIn(items, enabled) ==
    IF items = <<>> THEN <<>>
    ELSE (IF ~InList(Head(items)[1], enabled) THEN <<Head(items)[2]>> ELSE <<>>)
         \o StepsNotIn(Tail(items), enabled)

RECURSIVE StepsIn(_, _)
StepsIn(items, enabled) ==
    IF items = <<>> THEN <<>>
    ELSE (IF InList(Head(items)[1], enabled) THEN <<Head(items)[2]>> ELSE <<>>)
         \o StepsIn(Tail(items), enabled)

get_step_id_to_skip_keeping_enabled(md) ==
    LET options == DictGet(md, "connectorTestSuitesOptions", <<>>)
        enabled_test_suites == [i \in 1..Len(options) |-> options[i].suite]
    IN StepsIn(TEST_SUITE_NAME_TO_STEP_ID, enabled_test_suites)
\* ConnectorContext._get_step_id_to_skip_according_to_metadata
get_step_id_to_skip_according_to_metadata(md) ==
    LET options == DictGet(md, "connectorTestSuitesOptions", <<>>)
        enabled_test_suites == [i \in 1..Len(options) |-> options[i].suite]
    IN StepsNotIn(TEST_SUITE_NAME_TO_STEP_ID, enabled_test_suites)

\* The RunStepOptions() object of __init__'s default argument: built once,
\* when the class is defined, and shared by every call that omits the
\* argument.
DefaultRunStepOptionsRef == 1
\* A RunStepOptions object a caller built and passes to several contexts.
CallerRunStepOptionsRef == 2

\* skip_steps a caller may have set on its object.
CallerSkipSteps == {<<>>, <<"UNIT">>, <<"BUILD">>}

deepcopy_aliasing(h, ref) == [heap |-> h, ref |-> ref]
\* copy.deepcopy of the object at ref: a new object with an equal list.
deepcopy(h, ref) == [heap |-> Append(h, h[ref]), ref |-> Len(h) + 1]

\* ConnectorContext._skip_metadata_disabled_test_suites: the heap after
\* the call and the reference it returns.
skip_metadata_disabled_test_suites(h, ref, md) ==
    LET copied == deepcopy(h, ref)
    IN [heap |-> [copied.heap EXCEPT ![copied.ref] =
                      @ \o get_step_id_to_skip_according_to_metadata(md)],
        ref |-> copied.ref]

CtorIdle ==
    /\ heap = <<>>
    /\ pristine = <<>>
    /\ last_ctor = NoneObj

CtorInit ==
    /\ \E s \in CallerSkipSteps : heap = << <<>>, s >>
    /\ pristine = heap
    /\ last_ctor = NoneObj

\* ConnectorContext.__init__, as far as run_step_options goes: the object
\* handed to PipelineContext.__init__ is the one the skip policy returns.
Construct(ref, md) ==
    /\ Len(heap) < 2 + MaxContexts
    /\ LET r == skip_metadata_disabled_test_suites(heap, ref, md)
       IN /\ heap' = r.heap
          /\ last_ctor' = [kind |-> "ConnectorContext",
                           input |-> ref,
                           before |-> heap[ref],
                           metadata |-> md,
                           skipped |-> get_step_id_to_skip_according_to_metadata(md),
                           run_step_options |-> r.ref]
    /\ UNCHANGED <<pristine, tdVars, secVars, accVars>>

NextCtor ==
    \E ref \in {DefaultRunStepOptionsRef, CallerRunStepOptionsRef} :
        \E md \in Metadatas : Construct(ref, md)

(***************************************************************************)
(* Part 4.  The credential accessors                                       *)
(***************************************************************************)

\* What a credential argument may hold: None, an empty string, a value.
CredentialValues == {None, "", "credential"}

\* Python's truth value of an Optional[str].
Truthy(v) == v # None /\ v # ""

\* dagger_client.set_secret(name, plaintext): the handle it returns.
set_secret(name, plaintext) ==
    [kind |-> "Secret", name |-> name, plaintext |-> plaintext]

\* ConnectorContext.s3_build_cache_access_key_id_secret
s3_build_cache_access_key_id_secret ==
    IF Truthy(s3_build_cache_access_key_id)
    THEN set_secret("s3_build_cache_access_key_id", s3_build_cache_access_key_id)
    ELSE NoneObj

s3_build_cache_secret_key_secret_without_key_id ==
    IF Truthy(s3_build_cache_secret_key)
    THEN set_secret("s3_build_cache_secret_key", s3_build_cache_secret_key)
    ELSE NoneObj
\* ConnectorContext.s3_build_cache_secret_key_secret
s3_build_cache_secret_key_secret ==
    IF Truthy(s3_build_cache_access_key_id) /\ Truthy(s3_build_cache_secret_key)
    THEN set_secret("s3_build_cache_secret_key", s3_build_cache_secret_key)
    ELSE NoneObj

\* ConnectorContext.docker_hub_username_secret
docker_hub_username_secret ==
    IF docker_hub_username = None THEN NoneObj
    ELSE set_secret("docker_hub_username", docker_hub_username)

\* ConnectorContext.docker_hub_password_secret
docker_hub_password_secret ==
    IF docker_hub_password = None THEN NoneObj
    ELSE set_secret("docker_hub_password", docker_hub_password)

AccessorsIdle ==
    /\ s3_build_cache_access_key_id = None
    /\ s3_build_cache_secret_key = None
    /\ docker_hub_username = None
    /\ docker_hub_password = None
    /\ dagger_secrets = {}
    /\ last_access = NoneObj

\* The credentials are stored as given; no secret is registered.
AccessorsInit ==
    /\ s3_build_cache_access_key_id \in CredentialValues
    /\ s3_build_cache_secret_key \in CredentialValues
    /\ docker_hub_username \in CredentialValues
    /\ docker_hub_password \in CredentialValues
    /\ dagger_secrets = {}
    /\ last_access = NoneObj

\* A read of an accessor: the value it returns, and the secret it
\* registers with the dagger client when it returns one.
ReadAccessor(accessor, value) ==
    /\ last_access' = [kind |-> "read", accessor |-> accessor, value |-> value]
    /\ dagger_secrets' =
           IF value = NoneObj THEN dagger_secrets
           ELSE dagger_secrets \cup {value.name}
    /\ UNCHANGED <<s3_build_cache_access_key_id, s3_build_cache_secret_key,
                   docker_hub_username, docker_hub_password,
                   tdVars, secVars, ctorVars>>

Read_s3_build_cache_access_key_id_secret ==
    ReadAccessor("s3_build_cache_access_key_id_secret",
                 s3_build_cache_access_key_id_secret)

Read_s3_build_cache_secret_key_secret ==
    ReadAccessor("s3_build_cache_secret_key_secret",
                 s3_build_cache_secret_key_secret)

Read_docker_hub_username_secret ==
    ReadAccessor("docker_hub_username_secret", docker_hub_username_secret)

Read_docker_hub_password_secret ==
    ReadAccessor("docker_hub_password_secret", docker_hub_password_secret)

NextAccessors ==
    \/ Read_s3_build_cache_access_key_id_secret
    \/ Read_s3_build_cache_secret_key_secret
    \/ Read_docker_hub_username_secret
    \/ Read_docker_hub_password_secret

(***************************************************************************)
(* The specifications                                                      *)
(***************************************************************************)

Init == TeardownInit /\ SecretsIdle /\ CtorIdle /\ AccessorsIdle
Spec == Init /\ [][Next]_vars

InitSecrets == TeardownIdle /\ SecretsInit /\ CtorIdle /\ AccessorsIdle
SpecSecrets == InitSecrets /\ [][NextSecrets]_vars

InitCtor == TeardownIdle /\ SecretsIdle /\ CtorInit /\ AccessorsIdle
SpecCtor == InitCtor /\ [][NextCtor]_vars

InitAccessors == TeardownIdle /\ SecretsIdle /\ CtorIdle /\ AccessorsInit
SpecAccessors == InitAccessors /\ [][NextAccessors]_vars

(***************************************************************************)
(* The claims                                                              *)
(***************************************************************************)

InLog(e) == \E i \in 1..Len(log) : log[i] = e
Count(e) == Cardinality({i \in 1..Len(log) : log[i] = e})
\* __aexit__ is over: it returned, or an exception left it.
Terminated == pc \in {"returned", "raised"}
\* __aexit__ is past the test of self.report.
PastReportCheck == pc \notin {"unused", "scope", "aexit", "check_report"}
\* __aexit__ is past the test of should_save_updated_secrets.
PastUploadDecision == PastReportCheck /\ pc # "upload"

\* C1: teardown never re-raises: whenever __aexit__ is over, no exception
\* has left it and it has returned True, whatever the scope's outcome, the
\* report and the configuration.
C1_TeardownNeverRaises ==
    Terminated => escaped = None /\ aexit_return = "True"

\* C2: when update_commit_status_check raised during __aexit__ and a
\* webhook and a channel are configured, send_message_to_webhook has been
\* invoked by the time __aexit__ is over.
C2_SlackSentAfterStatusFailure ==
    (Terminated /\ InLog("status:raised") /\ should_send_slack_message)
        => InLog("slack:call")

\* C3: in every execution of __aexit__, also when the secrets upload or the
\* report save raises, the report has been printed and
\* update_commit_status_check has been called by the time __aexit__ is over.
C3_StatusAlwaysAttempted ==
    Terminated => InLog("print") /\ InLog("status:call")

\* C4: once __aexit__ is past its test of self.report the report is never
\* None; when none was attached it is the empty report, of zero steps; and
\* neither print nor save ever ran on a None report.
C4_ReportNeverNull ==
    PastReportCheck =>
        /\ report # NoneObj
        /\ report \in AttachableReports \cup {EmptyConnectorReport}
        /\ InLog("log_no_report") => report.steps = <<>>
        /\ ~InLog("log_no_report") => report \in AttachableReports
        /\ ~InLog("print:None") /\ ~InLog("save:None")

\* C4's case: the scope raised, no report was attached, and teardown went
\* on to print the substituted report.
C4_Witness ==
    /\ Terminated
    /\ exception_value # None
    /\ InLog("substitute")
    /\ InLog("print")
    /\ report = EmptyConnectorReport

\* The place of each teardown event in the order of __aexit__.
Rank(e) ==
    CASE e = "stopped_at" -> 1
      [] e = "state" -> 2
      [] e = "log_exception" -> 3
      [] e = "log_no_report" -> 4
      [] e = "substitute" -> 5
      [] e = "upload:call" -> 6
      [] e \in {"upload:done", "upload:raised"} -> 7
      [] e \in {"print", "print:None"} -> 8
      [] e \in {"save:call", "save:None"} -> 9
      [] e \in {"save:done", "save:raised"} -> 10
      [] e = "status:call" -> 11
      [] e \in {"status:done", "status:raised"} -> 12
      [] e \in {"slack:call", "create_slack_message:raised"} -> 13
      [] e \in {"slack:done", "slack:raised"} -> 14

\* C8: the teardown steps happen in the order stop timestamp, final state,
\* report substitution, secrets upload, print, save, status check, Slack;
\* the timestamp and the state come first; and a step has started only
\* after every earlier applicable step has finished.
C8_StrictOrder ==
    /\ \A i, j \in 1..Len(log) : i < j => Rank(log[i]) < Rank(log[j])
    /\ Len(log) > 0 => Len(log) >= 2 /\ log[1] = "stopped_at" /\ log[2] = "state"
    /\ InLog("print") =>
          /\ should_save_updated_secrets => InLog("upload:done")
          /\ report # NoneObj
    /\ InLog("save:call") => InLog("print")
    /\ InLog("status:call") =>
          /\ InLog("print")
          /\ should_save_report => InLog("save:done")
    /\ (InLog("slack:call") \/ InLog("create_slack_message:raised")) =>
          InLog("status:done")
    /\ pc = "returned" =>
          /\ InLog("status:done")
          /\ should_send_slack_message => InLog("slack:done")

\* C8's case: a teardown in which every step applied and ran to its end.
C8_Witness ==
    /\ pc = "returned"
    /\ InLog("substitute")
    /\ InLog("upload:done")
    /\ InLog("print")
    /\ InLog("save:done")
    /\ InLog("status:done")
    /\ InLog("slack:done")

\* C10: once __aexit__ is past its test of should_save_updated_secrets,
\* secrets.upload has been called exactly once when use_remote_secrets is
\* true and updated_secrets_dir is not None, and never otherwise.
C10_UploadIffRemoteAndUpdated ==
    PastUploadDecision =>
        Count("upload:call") =
            (IF use_remote_secrets /\ updated_secrets_dir_field # None
             THEN 1 ELSE 0)

\* C10's case: both directories were assigned during the run, the run uses
\* remote secrets, and teardown has uploaded.
C10_Witness ==
    /\ Terminated
    /\ use_remote_secrets
    /\ secrets_dir_field # None
    /\ updated_secrets_dir_field # None
    /\ Count("upload:call") = 1

\* C5: secrets.get_connector_secrets is invoked at most once per context,
\* overlapping calls included, and all callers receive the same mapping.
C5_AtMostOneFetch ==
    /\ fetches <= 1
    /\ \A t, u \in DOMAIN received :
          (received[t].kind = "Dict" /\ received[u].kind = "Dict")
              => received[t] = received[u]

ToSet(l) == {l[i] : i \in 1..Len(l)}
\* The suite names a metadata enables.
EnabledNames(md) ==
    IF "connectorTestSuitesOptions" \in DOMAIN md
    THEN {md.connectorTestSuitesOptions[i].suite :
              i \in 1..Len(md.connectorTestSuitesOptions)}
    ELSE {}

\* C6: the skip-set is exactly the step identifiers of the recognised
\* suites that the metadata does not enable: all three when the options are
\* empty or absent, the other two when one recognised suite is enabled;
\* unrecognised names change nothing.
C6_SkipSetIsDisabledSuites ==
    last_ctor # NoneObj =>
        LET enabled == EnabledNames(last_ctor.metadata)
            skipped == ToSet(last_ctor.skipped)
        IN /\ "UNIT" \in skipped <=> "unitTests" \notin enabled
           /\ "INTEGRATION" \in skipped <=> "integrationTests" \notin enabled
           /\ "ACCEPTANCE" \in skipped <=> "acceptanceTests" \notin enabled
           /\ skipped \subseteq {"UNIT", "INTEGRATION", "ACCEPTANCE"}
           /\ enabled \subseteq {"liveTests"} =>
                  skipped = {"UNIT", "INTEGRATION", "ACCEPTANCE"}
           /\ enabled \ {"liveTests"} = {"integrationTests"} =>
                  skipped = {"UNIT", "ACCEPTANCE"}

\* C6's case: a metadata that enables one recognised suite and one
\* unrecognised one.
C6_Witness ==
    /\ last_ctor # NoneObj
    /\ EnabledNames(last_ctor.metadata) = {"integrationTests", "liveTests"}
    /\ last_ctor.skipped = <<"UNIT", "ACCEPTANCE">>

\* C7: the policy never mutates its input: the shared default object and
\* the caller's object keep the skip lists they had, while the object a
\* context gets is a new one whose list is the input's followed by the
\* computed skip-set, duplicates kept.
C7_InputNeverMutated ==
    /\ \A ref \in DOMAIN pristine : heap[ref] = pristine[ref]
    /\ last_ctor # NoneObj =>
          /\ last_ctor.run_step_options \notin DOMAIN pristine
          /\ last_ctor.run_step_options = Len(heap)
          /\ heap[last_ctor.run_step_options] =
                 last_ctor.before \o last_ctor.skipped
          /\ last_ctor.before = pristine[last_ctor.input]

\* C7's case: a second context constructed from the shared default object,
\* each context having got steps to skip.
C7_Witness ==
    /\ last_ctor # NoneObj
    /\ Len(heap) = 4
    /\ last_ctor.input = DefaultRunStepOptionsRef
    /\ heap[3] # <<>>
    /\ heap[4] # <<>>

\* C9 as stated: s3_build_cache_secret_key_secret returns no secret
\* whenever either credential is unset (None), and a handle when both are
\* set.
C9_HandleIffBothSet ==
    (last_access # NoneObj
     /\ last_access.accessor = "s3_build_cache_secret_key_secret") =>
        (last_access.value = NoneObj <=>
            (s3_build_cache_access_key_id = None
             \/ s3_build_cache_secret_key = None))

\* C9 as amended: s3_build_cache_secret_key_secret returns no secret
\* whenever either credential is None or the empty string, and otherwise
\* the handle named s3_build_cache_secret_key that wraps the secret key.
C9_HandleIffBothNonEmpty ==
    (last_access # NoneObj
     /\ last_access.accessor = "s3_build_cache_secret_key_secret") =>
        IF s3_build_cache_access_key_id \in {None, ""}
           \/ s3_build_cache_secret_key \in {None, ""}
        THEN last_access.value = NoneObj
        ELSE last_access.value =
                 [kind |-> "Secret", name |-> "s3_build_cache_secret_key",
                  plaintext |-> s3_build_cache_secret_key]

\* C9's case: only the access key id is set, and the accessor was read.
C9_Witness ==
    /\ last_access # NoneObj
    /\ last_access.accessor = "s3_build_cache_secret_key_secret"
    /\ s3_build_cache_access_key_id = "credential"
    /\ s3_build_cache_secret_key = None
    /\ last_access.value = NoneObj

=============================================================================
